---- MODULE Spec2Model ----
(***************************************************************************)
(* Model of Lab_7/analyzer.py: leader detection, basic blocks, CFG,         *)
(* cyclomatic complexity and reaching definitions.                         *)
(*                                                                         *)
(* A statement line is the sequence of its tokens: the maximal \w+ runs    *)
(* and the single punctuation characters of the stripped line.  No white   *)
(* space stands before ";" or ":".  No word token of LineTexts contains a  *)
(* keyword as a proper substring, so the prefix and substring tests the     *)
(* code makes on the text are tests on tokens here.  "break;" is left out  *)
(* of LineTexts: every test of the code that holds of "return;" holds of   *)
(* it and conversely.                                                      *)
(* Python lists are sequences read through At (0-based); the dict keyed     *)
(* "B<i>" is a function on 0..n-1; the definition "d<n>" is the number n.  *)
(***************************************************************************)
EXTENDS Integers, Sequences, FiniteSets

VARIABLES pc, lines, leaders, blocks, cfg, metrics, definitions, var_to_defs,
          gen, kill, in_sets, out_sets, changed, iteration, history

vars == <<pc, lines, leaders, blocks, cfg, metrics, definitions, var_to_defs,
          gen, kill, in_sets, out_sets, changed, iteration, history>>

\* ---------------------------------------------------------------- bounds
MaxLines == 4

MaxIter == 8

MaxSolverBlocks == 2

\* ------------------------------------------------------------ input lines
LineTexts ==
    { <<"x", "=", "1", ";">>,
      <<"y", "=", "2", ";">>,
      <<"if", "(", "x", ")">>,
      <<"while", "(", "x", ")", "{">>,
      <<"else", "{">>,
      <<"}">>,
      <<"}", "else", "{">>,
      <<"goto", "L", ";">>,
      <<"L", ":">>,
      <<"return", ";">>,
      <<"case", "1", ":">> }

Punctuation == {"(", ")", "{", "}", "[", "]", ";", ":", "=", "++", "--", "+=", "-="}

IsWord(tok) == tok \notin Punctuation

RECURSIVE SeqsUpTo(_, _)
SeqsUpTo(S, n) ==
    IF n = 0 THEN { <<>> }
    ELSE LET shorter == SeqsUpTo(S, n - 1)
         IN  shorter \cup { Append(s, e) : s \in { t \in shorter : Len(t) = n - 1 }, e \in S }

At(s, i) == s[i + 1]

Range(s) == { s[k] : k \in 1..Len(s) }

Min(S) == CHOOSE m \in S : \A o \in S : m <= o

RECURSIVE Sorted(_)
Sorted(S) == IF S = {} THEN <<>> ELSE <<Min(S)>> \o Sorted(S \ {Min(S)})

Contains(line, kw) == \E k \in 1..Len(line) : line[k] = kw

FirstTokenIn(line, kws) == Len(line) >= 1 /\ line[1] \in kws

StartsWithBrace(line) == FirstTokenIn(line, {"}"})

\* ----------------------------------------------------------- find_leaders
BranchHeader(line) ==
    FirstTokenIn(line, {"if", "while", "for", "switch"}) /\ Len(line) >= 2 /\ line[2] = "("

BranchTargetKeyword(line) == FirstTokenIn(line, {"else", "case", "default"})

GotoAt(line, k) ==
    /\ k + 2 <= Len(line)
    /\ line[k] = "goto"
    /\ IsWord(line[k + 1])
    /\ line[k + 2] = ";"

HasGoto(line) == \E k \in 1..Len(line) : GotoAt(line, k)

GotoLabel(line) == line[Min({ k \in 1..Len(line) : GotoAt(line, k) }) + 1]

LabelAtMut(line, label) == Contains(line, label)

LabelAt(line, label) == Len(line) >= 2 /\ line[1] = label /\ line[2] = ":"

GotoTargets(ls) ==
    { j \in 0..(Len(ls) - 1) :
        \E i \in 0..(Len(ls) - 1) :
            HasGoto(At(ls, i)) /\ LabelAt(At(ls, j), GotoLabel(At(ls, i))) }

JumpStatement(line) ==
    FirstTokenIn(line, {"if", "while", "for", "switch", "goto", "return", "break"})

AfterJump(ls) ==
    { i + 1 : i \in { k \in 0..(Len(ls) - 1) :
                        /\ JumpStatement(At(ls, k)) \/ (StartsWithBrace(At(ls, k)) /\ k > 0)
                        /\ k + 1 < Len(ls)
                        /\ ~StartsWithBrace(At(ls, k + 1)) } }

AfterInlineElse(ls) ==
    { i + 1 : i \in { k \in 0..(Len(ls) - 1) :
                        At(ls, k) = <<"}", "else", "{">> /\ k + 1 < Len(ls) } }

LeaderSet(ls) ==
    {0}
    \cup { i \in 0..(Len(ls) - 1) : BranchHeader(At(ls, i)) \/ BranchTargetKeyword(At(ls, i)) }
    \cup GotoTargets(ls)
    \cup AfterJump(ls)
    \cup AfterInlineElse(ls)

find_leaders(ls) == Sorted(LeaderSet(ls))

\* ---------------------------------------------------- create_basic_blocks
EndIndexMut(ldrs, i, n) == IF i + 1 < Len(ldrs) THEN At(ldrs, i + 1) - 1 ELSE n

EndIndex(ldrs, i, n) == IF i + 1 < Len(ldrs) THEN At(ldrs, i + 1) ELSE n

create_basic_blocks(ls, ldrs) ==
    [ i \in 0..(Len(ldrs) - 1) |->
        LET start_index == At(ldrs, i)
            end_index   == EndIndex(ldrs, i, Len(ls))
        IN  [ code       |-> SubSeq(ls, start_index + 1, end_index),
              start_line |-> start_index,
              end_line   |-> end_index - 1 ] ]

NumBlocks(bs) == Cardinality(DOMAIN bs)

\* -------------------------------------------------------------- build_cfg
LastLine(b) == b.code[Len(b.code)]

FirstLine(b) == b.code[1]

CondHeader(line) ==
    FirstTokenIn(line, {"if", "while", "for"}) /\ Len(line) >= 2 /\ line[2] = "("

TrueBranchMut(bs, i) == IF i + 1 < NumBlocks(bs) THEN <<i>> ELSE <<>>

TrueBranch(bs, i) == IF i + 1 < NumBlocks(bs) THEN <<i + 1>> ELSE <<>>

ElseBlocksAfter(bs, i) ==
    { j \in (i + 1)..(NumBlocks(bs) - 1) : Contains(FirstLine(bs[j]), "else") }

FalseBranchNoBreak(bs, i) ==
    IF ElseBlocksAfter(bs, i) # {} THEN Sorted(ElseBlocksAfter(bs, i))
    ELSE IF i + 2 < NumBlocks(bs) THEN <<i + 2>> ELSE <<>>

FalseBranch(bs, i) ==
    IF ElseBlocksAfter(bs, i) # {} THEN <<Min(ElseBlocksAfter(bs, i))>>
    ELSE IF i + 2 < NumBlocks(bs) THEN <<i + 2>> ELSE <<>>

MergeJump(bs, i) ==
    IF i + 2 < NumBlocks(bs) THEN <<i + 2>>
    ELSE IF i + 1 < NumBlocks(bs) THEN <<i + 1>> ELSE <<>>

Fallthrough(bs, i) ==
    IF /\ ~\E kw \in {"return", "break", "goto"} : Contains(LastLine(bs[i]), kw)
       /\ i + 1 < NumBlocks(bs)
    THEN <<i + 1>> ELSE <<>>

EdgeAppends(bs, i) ==
    IF CondHeader(LastLine(bs[i])) THEN TrueBranch(bs, i) \o FalseBranch(bs, i)
    ELSE IF Contains(FirstLine(bs[i]), "else") \/ Contains(FirstLine(bs[i]), "case")
         THEN MergeJump(bs, i)
         ELSE Fallthrough(bs, i)

\* blocks[block_id]['code'][-1] raises IndexError on a block with empty code
BuildCfgRaises(bs) == \E i \in DOMAIN bs : Len(bs[i].code) = 0

build_cfg(bs) == [ i \in DOMAIN bs |-> Sorted(Range(EdgeAppends(bs, i))) ]

\* ------------------------------------------------------ calculate_metrics
RECURSIVE SumLen(_, _)
SumLen(f, S) ==
    IF S = {} THEN 0 ELSE LET b == Min(S) IN Len(f[b]) + SumLen(f, S \ {b})

ComplexityOfMut(num_edges, num_nodes) == num_nodes - num_edges + 2

ComplexityOf(num_edges, num_nodes) == num_edges - num_nodes + 2

calculate_metrics(g) ==
    LET num_nodes == Cardinality(DOMAIN g)
        num_edges == SumLen(g, DOMAIN g)
    IN  [ num_nodes |-> num_nodes, num_edges |-> num_edges,
          complexity |-> ComplexityOf(num_edges, num_nodes) ]

\* ------------------------------------------------------- find_definitions
AssignOps == {"=", "++", "--", "+=", "-="}

RECURSIVE AfterSubscripts(_, _)
AfterSubscripts(line, k) ==
    IF k + 2 <= Len(line) /\ line[k] = "[" /\ IsWord(line[k + 1]) /\ line[k + 2] = "]"
    THEN AfterSubscripts(line, k + 3) ELSE k

DefinitionMatch(line) ==
    /\ Len(line) >= 2
    /\ IsWord(line[1])
    /\ AfterSubscripts(line, 2) <= Len(line)
    /\ line[AfterSubscripts(line, 2)] \in AssignOps

RECURSIVE ScanLines(_, _, _, _)
ScanLines(bs, b, k, defs) ==
    IF b >= NumBlocks(bs) THEN defs
    ELSE IF k > Len(bs[b].code) THEN ScanLines(bs, b + 1, 1, defs)
    ELSE IF DefinitionMatch(bs[b].code[k])
         THEN ScanLines(bs, b, k + 1,
                  Append(defs, [ var |-> bs[b].code[k][1], block |-> b, line |-> bs[b].code[k] ]))
         ELSE ScanLines(bs, b, k + 1, defs)

find_definitions(bs) == ScanLines(bs, 0, 1, <<>>)

VarToDefs(defs) ==
    [ v \in { defs[n].var : n \in 1..Len(defs) } |-> { n \in 1..Len(defs) : defs[n].var = v } ]

\* ------------------------------------------------------- compute_gen_kill
RECURSIVE GenKillFrom(_, _, _, _)
GenKillFrom(defs, vtd, n, gk) ==
    IF n > Len(defs) THEN gk
    ELSE LET new_gen    == [ gk.gen EXCEPT ![defs[n].block] = @ \cup {n} ]
             other_defs == vtd[defs[n].var] \ {n}
             new_kill   == [ b \in DOMAIN gk.kill |->
                               IF n \in new_gen[b] THEN gk.kill[b] \cup other_defs
                               ELSE gk.kill[b] ]
         IN  GenKillFrom(defs, vtd, n + 1, [ gen |-> new_gen, kill |-> new_kill ])

compute_gen_kill(bs, defs, vtd) ==
    GenKillFrom(defs, vtd, 1, [ gen  |-> [ b \in DOMAIN bs |-> {} ],
                                kill |-> [ b \in DOMAIN bs |-> {} ] ])

\* ------------------------------------------ reaching_definitions_analysis
get_predecessors_reversed(g) ==
    [ b \in DOMAIN g |-> { p \in DOMAIN g : p \in Range(g[b]) } ]

get_predecessors(g) ==
    [ b \in DOMAIN g |-> { p \in DOMAIN g : b \in Range(g[p]) } ]

OutChangedNonEmpty(new_out, old_out) == new_out # {}

OutChanged(new_out, old_out) == new_out # old_out

FlagOverwritten(flag, diff) == diff

Flag(flag, diff) == flag \/ diff

\* the body of "for block_id in blocks" for block b
BlockStep(b, preds, g, k, st) ==
    LET new_in  == UNION { st.out[p] : p \in preds[b] }
        old_out == st.out[b]
        new_out == g[b] \cup (new_in \ k[b])
    IN  [ in      |-> [ st.in EXCEPT ![b] = new_in ],
          out     |-> [ st.out EXCEPT ![b] = new_out ],
          changed |-> Flag(st.changed, OutChanged(new_out, old_out)) ]

\* blocks b, b+1, ... in id order; st ranges over the one value of st0, so
\* that the sets so far are computed once
RECURSIVE PassFrom(_, _, _, _, _)
PassFrom(b, preds, g, k, st0) ==
    IF b >= Cardinality(DOMAIN g) THEN st0
    ELSE CHOOSE after \in { PassFrom(b + 1, preds, g, k, BlockStep(b, preds, g, k, st)) :
                               st \in {st0} } : TRUE

OnePass(graph, g, k, ins, outs) ==
    PassFrom(0, get_predecessors(graph), g, k, [ in |-> ins, out |-> outs, changed |-> FALSE ])

\* ---------------------------------------------------------------- actions
NoMap == [ b \in {} |-> {} ]

NoMetrics == [ num_nodes |-> 0, num_edges |-> 0, complexity |-> 0 ]

\* main: lines = get_c_code_lines(c_filepath)
Init ==
    /\ pc = "find_leaders"
    /\ lines \in SeqsUpTo(LineTexts, MaxLines)
    /\ leaders = <<>>
    /\ blocks = NoMap
    /\ cfg = NoMap
    /\ metrics = NoMetrics
    /\ definitions = <<>>
    /\ var_to_defs = NoMap
    /\ gen = NoMap
    /\ kill = NoMap
    /\ in_sets = NoMap
    /\ out_sets = NoMap
    /\ changed = FALSE
    /\ iteration = 0
    /\ history = <<>>

FindLeaders ==
    /\ pc = "find_leaders"
    /\ leaders' = find_leaders(lines)
    /\ pc' = "create_basic_blocks"
    /\ UNCHANGED <<lines, blocks, cfg, metrics, definitions, var_to_defs,
                   gen, kill, in_sets, out_sets, changed, iteration, history>>

CreateBasicBlocks ==
    /\ pc = "create_basic_blocks"
    /\ blocks' = create_basic_blocks(lines, leaders)
    /\ pc' = "build_cfg"
    /\ UNCHANGED <<lines, leaders, cfg, metrics, definitions, var_to_defs,
                   gen, kill, in_sets, out_sets, changed, iteration, history>>

BuildCfg ==
    /\ pc = "build_cfg"
    /\ IF BuildCfgRaises(blocks)
       THEN pc' = "error" /\ UNCHANGED cfg
       ELSE pc' = "calculate_metrics" /\ cfg' = build_cfg(blocks)
    /\ UNCHANGED <<lines, leaders, blocks, metrics, definitions, var_to_defs,
                   gen, kill, in_sets, out_sets, changed, iteration, history>>

CalculateMetrics ==
    /\ pc = "calculate_metrics"
    /\ metrics' = calculate_metrics(cfg)
    /\ pc' = "find_definitions"
    /\ UNCHANGED <<lines, leaders, blocks, cfg, definitions, var_to_defs,
                   gen, kill, in_sets, out_sets, changed, iteration, history>>

FindDefinitions ==
    /\ pc = "find_definitions"
    /\ definitions' = find_definitions(blocks)
    /\ var_to_defs' = VarToDefs(find_definitions(blocks))
    /\ pc' = "compute_gen_kill"
    /\ UNCHANGED <<lines, leaders, blocks, cfg, metrics,
                   gen, kill, in_sets, out_sets, changed, iteration, history>>

ComputeGenKill ==
    /\ pc = "compute_gen_kill"
    /\ gen' = compute_gen_kill(blocks, definitions, var_to_defs).gen
    /\ kill' = compute_gen_kill(blocks, definitions, var_to_defs).kill
    /\ pc' = "rda_start"
    /\ UNCHANGED <<lines, leaders, blocks, cfg, metrics, definitions, var_to_defs,
                   in_sets, out_sets, changed, iteration, history>>

\* reaching_definitions_analysis, up to the loop
RdaStart ==
    /\ pc = "rda_start"
    /\ in_sets' = [ b \in DOMAIN blocks |-> {} ]
    /\ out_sets' = [ b \in DOMAIN blocks |-> {} ]
    /\ changed' = TRUE
    /\ iteration' = 0
    /\ history' = <<>>
    /\ pc' = "rda_loop"
    /\ UNCHANGED <<lines, leaders, blocks, cfg, metrics, definitions, var_to_defs, gen, kill>>

\* one turn of "while changed"
RdaPass ==
    /\ pc = "rda_loop"
    /\ changed
    /\ iteration < MaxIter
    /\ LET st == OnePass(cfg, gen, kill, in_sets, out_sets)
       IN  /\ in_sets' = st.in
           /\ out_sets' = st.out
           /\ changed' = st.changed
    /\ iteration' = iteration + 1
    /\ history' = Append(history, out_sets)
    /\ UNCHANGED <<pc, lines, leaders, blocks, cfg, metrics, definitions, var_to_defs, gen, kill>>

RdaReturn ==
    /\ pc = "rda_loop"
    /\ ~changed
    /\ pc' = "done"
    /\ UNCHANGED <<lines, leaders, blocks, cfg, metrics, definitions, var_to_defs,
                   gen, kill, in_sets, out_sets, changed, iteration, history>>

Next ==
    \/ FindLeaders
    \/ CreateBasicBlocks
    \/ BuildCfg
    \/ CalculateMetrics
    \/ FindDefinitions
    \/ ComputeGenKill
    \/ RdaStart
    \/ RdaPass
    \/ RdaReturn

Spec == Init /\ [][Next]_vars

\* ------------------- the solver alone, on any CFG and any gen/kill tables
SolverBlocks == 0..(MaxSolverBlocks - 1)

\* out[B] = gen[B] \cup (in[B] - kill[B]) acts on each definition id
\* separately, so one id stands for any finite set of them
SolverDefs == {1}

InitSolver ==
    /\ pc = "rda_start"
    /\ lines = <<>>
    /\ leaders = <<>>
    /\ blocks = [ b \in SolverBlocks |-> [ code |-> <<>>, start_line |-> 0, end_line |-> -1 ] ]
    /\ \E succ \in [ SolverBlocks -> SUBSET SolverBlocks ] :
           cfg = [ b \in SolverBlocks |-> Sorted(succ[b]) ]
    /\ metrics = NoMetrics
    /\ definitions = <<>>
    /\ var_to_defs = NoMap
    /\ gen \in [ SolverBlocks -> SUBSET SolverDefs ]
    /\ kill \in [ SolverBlocks -> SUBSET SolverDefs ]
    /\ in_sets = NoMap
    /\ out_sets = NoMap
    /\ changed = FALSE
    /\ iteration = 0
    /\ history = <<>>

NextSolver ==
    \/ RdaStart
    \/ RdaPass
    \/ RdaReturn

\* the loop is sequential code: a step that can be taken is taken
SolverSpec == InitSolver /\ [][NextSolver]_vars /\ WF_vars(NextSolver)

\* ------------------------------------------------------------ properties
LeadersKnown == pc \notin {"find_leaders"}

BlocksKnown == pc \notin {"find_leaders", "create_basic_blocks"}

CfgKnown == pc \notin {"find_leaders", "create_basic_blocks", "build_cfg", "error"}

MetricsKnown == CfgKnown /\ pc # "calculate_metrics"

LineIdx == 0..(Len(lines) - 1)

Edges == { <<a, b>> \in (DOMAIN cfg) \X (DOMAIN cfg) : b \in Range(cfg[a]) }

\* C1: for a non-empty line sequence the leader list contains 0 and the
\* blocks partition 0..len(lines)-1: contiguous, in start-line order, without
\* gaps or overlaps, every line in exactly one block.
C1_BlocksPartitionLines ==
    (BlocksKnown /\ Len(lines) > 0) =>
        /\ 0 \in Range(leaders)
        /\ DOMAIN blocks = 0..(Len(leaders) - 1)
        /\ blocks[0].start_line = 0
        /\ blocks[NumBlocks(blocks) - 1].end_line = Len(lines) - 1
        /\ \A i \in DOMAIN blocks :
              /\ blocks[i].start_line <= blocks[i].end_line
              /\ blocks[i].code = SubSeq(lines, blocks[i].start_line + 1, blocks[i].end_line + 1)
              /\ (i + 1 \in DOMAIN blocks) => blocks[i + 1].start_line = blocks[i].end_line + 1
        /\ \A k \in LineIdx :
              Cardinality({ i \in DOMAIN blocks :
                              blocks[i].start_line <= k /\ k <= blocks[i].end_line }) = 1

C1_Witness ==
    /\ pc = "build_cfg"
    /\ Len(lines) = 4
    /\ NumBlocks(blocks) = 3
    /\ \E i \in DOMAIN blocks : Len(blocks[i].code) = 2

\* C2: gen[B] and kill[B] are disjoint for every block B, also when B holds
\* two or more definitions of one variable.
C2_GenKillDisjoint ==
    (pc \in {"rda_start", "rda_loop", "done"}) =>
        \A b \in DOMAIN gen : gen[b] \cap kill[b] = {}

\* C3: on every CFG and every gen/kill tables the loop of
\* reaching_definitions_analysis ends: a full pass changes no out[B], and the
\* function returns.
C3_SolverTerminates ==
    <>( /\ pc = "done"
        /\ ~changed
        /\ iteration >= 1
        /\ At(history, iteration - 1) = out_sets )

C3_Witness ==
    /\ pc = "done"
    /\ iteration >= 3
    /\ 1 \in Range(cfg[0])
    /\ 0 \in Range(cfg[1])

\* C4: the returned in/out sets are a fixpoint: in[B] is the union of out[P]
\* over the predecessors P of B, out[B] = gen[B] \cup (in[B] - kill[B]), and
\* one more pass in id order leaves every in[B] and out[B] as returned.
C4_ReturnedSetsAreFixpoint ==
    (pc = "done") =>
        /\ \A b \in DOMAIN blocks :
              /\ in_sets[b] = UNION { out_sets[p] : p \in { q \in DOMAIN cfg : b \in Range(cfg[q]) } }
              /\ out_sets[b] = gen[b] \cup (in_sets[b] \ kill[b])
        /\ OnePass(cfg, gen, kill, in_sets, out_sets).in = in_sets
        /\ OnePass(cfg, gen, kill, in_sets, out_sets).out = out_sets

C4_Witness ==
    /\ pc = "done"
    /\ iteration >= 2
    /\ \E b \in DOMAIN blocks : in_sets[b] # {} /\ kill[b] # {} /\ out_sets[b] = {}

NoCondLine == \A k \in LineIdx : ~FirstTokenIn(At(lines, k), {"if", "while", "for"})

NoJumpWord ==
    \A k \in LineIdx : \A kw \in {"return", "break", "goto"} : ~Contains(At(lines, k), kw)

MetricsOfGraph ==
    /\ metrics.num_nodes = NumBlocks(blocks)
    /\ metrics.num_edges = Cardinality(Edges)
    /\ metrics.complexity = Cardinality(Edges) - NumBlocks(blocks) + 2

\* C5 as stated: complexity = E - N + 2 for every computed graph, and every
\* input without an if/while/for line gives E = N - 1 and complexity 1.
C5_Original ==
    MetricsKnown =>
        /\ MetricsOfGraph
        /\ NoCondLine => (metrics.num_edges = metrics.num_nodes - 1 /\ metrics.complexity = 1)

\* C5 as amended: complexity = E - N + 2 for every computed graph, and every
\* input without an if/while/for line and without a line containing return,
\* break or goto gives E = N - 1 and complexity 1.
C5_SequentialComplexity ==
    MetricsKnown =>
        /\ MetricsOfGraph
        /\ (NoCondLine /\ NoJumpWord) =>
              (metrics.num_edges = metrics.num_nodes - 1 /\ metrics.complexity = 1)

C5_Witness ==
    /\ pc = "find_definitions"
    /\ NoCondLine
    /\ NoJumpWord
    /\ metrics.num_nodes = 3
    /\ metrics.num_edges = 2
    /\ \E k \in LineIdx : Contains(At(lines, k), "else")

\* C6: on empty input find_leaders yields {0}, create_basic_blocks one block
\* with empty code, and no later component raises.
C6_EmptyInputHandled ==
    (Len(lines) = 0) =>
        /\ LeadersKnown => leaders = <<0>>
        /\ BlocksKnown => (DOMAIN blocks = {0} /\ blocks[0].code = <<>>)
        /\ pc # "error"

BeginsWithLabel(line, label) == Len(line) >= 2 /\ SubSeq(line, 1, 2) = <<label, ":">>

GotoLines == { k \in LineIdx : HasGoto(At(lines, k)) }

UndefinedGoto(k) ==
    \A j \in LineIdx : ~BeginsWithLabel(At(lines, j), GotoLabel(At(lines, k)))

LeaderWithoutGoto(j) ==
    \/ j = 0
    \/ BranchHeader(At(lines, j))
    \/ BranchTargetKeyword(At(lines, j))
    \/ j \in AfterJump(lines)
    \/ j \in AfterInlineElse(lines)

\* C7: when the label of every goto of the input is defined on no line,
\* find_leaders returns a sorted list of line indices and no line is a leader
\* as the target of a goto: each leader is one by another rule.
C7_UndefinedGotoAddsNoLeader ==
    (LeadersKnown /\ Len(lines) > 0 /\ GotoLines # {} /\ \A k \in GotoLines : UndefinedGoto(k)) =>
        /\ \A n \in 1..Len(leaders) : leaders[n] \in LineIdx /\ LeaderWithoutGoto(leaders[n])
        /\ \A n \in 1..(Len(leaders) - 1) : leaders[n] < leaders[n + 1]

C7_Witness ==
    /\ pc = "create_basic_blocks"
    /\ Len(lines) = 4
    /\ \E k \in GotoLines : k >= 2 /\ UndefinedGoto(k) /\ k \notin Range(leaders)
    /\ Len(leaders) = 2

CondBlocksWithElse ==
    { i \in DOMAIN blocks : CondHeader(LastLine(blocks[i])) /\ ElseBlocksAfter(blocks, i) # {} }

\* C8 as stated: a block ending in an if/while/for header with a later block
\* whose first line contains else has exactly two outgoing edges, to the next
\* block and to the first such later block.
C8_Original ==
    CfgKnown =>
        \A i \in CondBlocksWithElse :
            /\ Len(cfg[i]) = 2
            /\ Range(cfg[i]) = {i + 1, Min(ElseBlocksAfter(blocks, i))}

\* C8 as amended: such a block has edges to the next block and to the first
\* later block whose first line contains else, and no other; they are two
\* edges unless the next block is that else block, and then one edge.
C8_CondBlockEdges ==
    CfgKnown =>
        \A i \in CondBlocksWithElse :
            /\ Range(cfg[i]) = {i + 1, Min(ElseBlocksAfter(blocks, i))}
            /\ Len(cfg[i]) = IF Min(ElseBlocksAfter(blocks, i)) = i + 1 THEN 1 ELSE 2

C8_Witness ==
    /\ pc = "calculate_metrics"
    /\ \E i \in CondBlocksWithElse :
          /\ Len(cfg[i]) = 2
          /\ Cardinality(ElseBlocksAfter(blocks, i)) = 2

\* C9: every edge of build_cfg goes from a block to a block of greater
\* index: no self-loop, no back edge, also with loops and backward gotos.
C9_EdgesGoForward ==
    CfgKnown => \A e \in Edges : e[1] < e[2]

C9_Witness ==
    /\ pc = "calculate_metrics"
    /\ \E k \in LineIdx : FirstTokenIn(At(lines, k), {"while"})
    /\ \E k \in GotoLines : \E j \in 0..(k - 1) : BeginsWithLabel(At(lines, j), GotoLabel(At(lines, k)))
    /\ Cardinality(Edges) >= 2

\* C10: on the CFG of build_cfg and the tables of compute_gen_kill the solver
\* makes at most two passes: the first pass gives every out set its final
\* value, the second changes nothing; one pass when no block generates.
C10_AtMostTwoPasses ==
    (pc = "done") =>
        /\ iteration \in {1, 2}
        /\ (iteration = 2) => history[2] = out_sets
        /\ (\A b \in DOMAIN gen : gen[b] = {}) => iteration = 1

C10_Witness ==
    /\ pc = "done"
    /\ iteration = 2
    /\ NumBlocks(blocks) >= 3
    /\ \E b \in DOMAIN blocks : kill[b] # {} /\ in_sets[b] \cap kill[b] # {}

====
